---- MODULE Spec2Model ----
(***************************************************************************)
(* A model of onui: the agent control loop (src/src/agent.rs), the LLM     *)
(* adapter it drives (src/src/llm/openai.rs), the terminal IO tasks        *)
(* (src/src/io/cli.rs) and the pending-call manager                        *)
(* (src/src/llm/lua_call.rs).                                              *)
(*                                                                         *)
(* Spec     : agent loop + adapter.  The agent is generic over its IO      *)
(*            (trait IO), so input and signal events are drawn from small  *)
(*            sets.  A model call is awaited by the agent: while it        *)
(*            streams (pc # "select") no other event is handled.           *)
(* SpecIO   : CliIO's stdin task and Ctrl-C task on the shared counter.    *)
(* SpecMgr  : llm::lua_call::Manager.                                      *)
(* SpecCodec: Action::from_raw / Input::from_raw on one text.              *)
(* SpecRun  : Spec with Agent::run around the loop and channels that may   *)
(*            be closed.                                                   *)
(* SpecLock : the resources mutex in finish_lua_batch, reset-vm and        *)
(*            on_lua_call.                                                 *)
(*                                                                         *)
(* A text line is modelled by its whitespace-separated tokens (the result  *)
(* of trim + split_whitespace); the empty sequence is a blank line.        *)
(***************************************************************************)
EXTENDS Integers, Sequences, FiniteSets, TLC

VARIABLES
    \* ---- agent + adapter (Spec)
    lua_wait_list,   \* AgentResources.lua_wait_list : HashMap<String, PendingLua>
    status,          \* OpenAIClient.status
    loop,            \* main_loop: "running" | "exited" (break) | "failed" (Err propagated)
    pc,              \* agent position: "select" | "send_results" (finish_lua_batch is
                     \* about to call send_lua_result) | "stream" | "tools" (awaiting
                     \* the model call)
    cont,            \* what the suspended handler does when the call returns
    nchunks,         \* chunks delivered by the call in flight
    ntools,          \* accumulated_tool_calls dispatched by the call in flight
    accumulated_tool_calls,
                     \* ids of the tool calls of the response in flight
    history,         \* OpenAIClient.history, kept as the tool-call ids of its
                     \* assistant messages that no later tool message answers
    out,             \* Output events sent on output_tx since the loop took the current
                     \* event or, if it has issued a send_* since, since that send;
                     \* the calls of on_llm_finished are logged in it as Finished
    \* ---- history variables of the agent (observations, never read by the code)
    lastEvent,       \* the event the loop handled last (or is handling)
    turn,            \* order: ids in the order on_lua_call inserted them;
                     \* owed: per id, LuaResult events seen since on_lua_call
    batch,           \* finish_lua_batch's locals: the drained items, the executions
                     \* made and the results it is about to send
    sendInfo,        \* the last send_* issued while handling lastEvent; pushed: the
                     \* roles of the messages its chat() has pushed to the history
    \* ---- CliIO tasks (SpecIO)
    sigint_cnt,      \* CliIO.sigint_cnt : AtomicU8
    ctrl_pc,         \* Ctrl-C task position
    ctrl_msg,        \* the msg the Ctrl-C task computed
    stdin_pc,        \* stdin task position: "read" | "send"
    stdin_act,       \* the Action the stdin task decoded and is about to send
    buf,             \* the stdin task's buf (sequence of characters)
    signal_ch,       \* events sent on signal_tx, in order
    input_ch,        \* events sent on input_tx, in order
    nlines,          \* stdin lines read so far
    npresses,        \* Ctrl-C presses delivered so far
    pressLog,        \* history: per press, presses since the last non-empty line and the msg sent
    sincePress,      \* history: presses since the last non-empty stdin line
    joined,          \* history: the non-empty lines read since the last event was
                     \* decoded, each trailing backslash replaced by a newline
    unix_pc,         \* per SIGTERM / SIGHUP / SIGQUIT task: "recv" | "done"
    \* ---- Manager (SpecMgr)
    unhandled,       \* Manager.unhandled : Vec<Item>
    handled,         \* Manager.handled : Vec<Item>
    mgrLast,         \* history: the last Manager call and its Result
    \* ---- message decoder (SpecCodec)
    raw,             \* the text handed to from_raw
    decoded,         \* what it was decoded to
    \* ---- Agent::run and its channels (SpecRun)
    input_rx,        \* "open" | "closed" (every input_tx dropped, nothing buffered)
    signal_rx,       \* "open" | "closed" (every signal_tx dropped, nothing buffered)
    run,             \* Agent::run: "main_loop" | "ok" | "err" (returned)
    async_tasks,     \* the tasks spawned by IO::open: "running" | "aborted"
    \* ---- the resources mutex (SpecLock)
    mutex,           \* who holds Arc<Mutex<AgentResources>>: "free" | "agent" | "handler"
    task_pc,         \* where the agent task is
    fin_pending,     \* finish_lua_batch: the items still to be processed
    fin_results,     \* finish_lua_batch: results so far
    handler_pc,      \* where on_lua_call is
    handler_calls    \* on_lua_call calls made by the call in flight

agentVars == <<lua_wait_list, status, loop, pc, cont, nchunks, ntools,
               accumulated_tool_calls, history, out, lastEvent, turn, batch, sendInfo>>
ioVars == <<sigint_cnt, ctrl_pc, ctrl_msg, stdin_pc, stdin_act, buf, signal_ch,
            input_ch, nlines, npresses, pressLog, sincePress, joined, unix_pc>>
mgrVars == <<unhandled, handled, mgrLast>>
codecVars == <<raw, decoded>>
runVars == <<input_rx, signal_rx, run, async_tasks>>
lockVars == <<mutex, task_pc, fin_pending, fin_results, handler_pc, handler_calls>>
vars == <<agentVars, ioVars, mgrVars, codecVars, runVars, lockVars>>

----------------------------------------------------------------------------
(* Bounds of the model *)

\* tool calls accumulated in one model response
MaxToolCalls == 2
\* assistant chunks streamed in one model response
MaxChunks == 1
\* lines read from stdin
MaxLines == 3
\* Ctrl-C presses delivered to the process
MaxPresses == 3
\* items ever inserted into a Manager between two clear() calls
MaxItems == 2

----------------------------------------------------------------------------
(* Values *)

\* Option<T>: None is the empty sequence, Some(x) the sequence of x
None == <<>>
Some(x) == <<x>>

\* tool-call ids and script sources the model may produce
Ids == {"t1", "t2"}
Codes == {"c1", "c2"}
\* a tool call whose arguments carry no `code`
NoCode == "NoCode"

\* the tool calls a response may carry; each (id, code) pair comes with one
\* timeout, so the timeout a call was made with can be read off the pair
ToolCalls == { [id |-> "t1", code |-> "c1", timeout |-> None],
               [id |-> "t1", code |-> "c2", timeout |-> Some(1)],
               [id |-> "t2", code |-> "c1", timeout |-> Some(1)],
               [id |-> "t2", code |-> NoCode, timeout |-> None] }

Signals == {"Exit", "Cancel"}
\* Input::Command{name, rest} events
Commands == { <<"exit", "">>, <<"quit", "">>, <<"cancel", "">>, <<"help", "">>,
              <<"new", "">>, <<"reset-vm", "">>, <<"status", "">>, <<"status", "now">>,
              <<"EXIT", "">>, <<"Help", "x">> }

\* operator text lines, as token sequences
TextLines == { <<>>, <<"y">>, <<"N">>, <<"t1">>, <<"hello">>,
               <<"approve", "t2">>, <<"t1", "no">>, <<"n", "t2">>,
               <<"all", "ok">>, <<"y", "ALL">> }

REJECTED_MSG == "Lua execution rejected by user."
GOODBYE_MSG == "Goodbye."
CANCELLED_MSG == "Cancelled. One more time to exit."
NOT_RECOGNIZED_MSG == "Lua approval input not recognized."

SystemMsg(text) == [type |-> "SystemMsg", text |-> text]
AssistantMsg(text) == [type |-> "AssistantMsg", text |-> text]
LuaCode(id, code) == [type |-> "LuaCode", id |-> id, code |-> code]
LuaResultOut(id, output) == [type |-> "LuaResult", id |-> id, output |-> output]
\* the call of LLMEventHandler::on_llm_finished, logged among the outputs at
\* the place where it happens; it is no Output
Finished == [type |-> "on_llm_finished"]

----------------------------------------------------------------------------
(* Pure helpers of agent.rs *)

to_ascii_lowercase(token) ==
    CASE token = "N" -> "n"
      [] token = "ALL" -> "all"
      [] token = "EXIT" -> "exit"
      [] token = "Help" -> "help"
      [] OTHER -> token

parse_decision(token) ==
    LET t == to_ascii_lowercase(token) IN
    IF t \in {"y", "yes", "approve", "ok"} THEN Some(TRUE)
    ELSE IF t \in {"n", "no", "reject"} THEN Some(FALSE)
    ELSE None

TargetAll == [kind |-> "All", id |-> ""]
TargetOne(id) == [kind |-> "One", id |-> id]
Approval(decision, target) ==
    [kind |-> "Some", decision |-> decision[1], target |-> target, msg |-> FALSE]
\* Ok(None); msg tells whether "not recognized" was sent first
NoApproval(msg) ==
    [kind |-> "None", decision |-> FALSE, target |-> TargetAll, msg |-> msg]

\* a parser that would take the decision from the first token only
parse_lua_approval_DecisionFirst(tokens, ids) ==
    IF tokens = <<>> \/ ids = {} THEN NoApproval(FALSE)
    ELSE IF parse_decision(tokens[1]) # None THEN
        IF Len(tokens) = 1 \/ tokens[2] = "all"
            THEN Approval(parse_decision(tokens[1]), TargetAll)
        ELSE IF tokens[2] \in ids
            THEN Approval(parse_decision(tokens[1]), TargetOne(tokens[2]))
        ELSE NoApproval(TRUE)
    ELSE IF Len(tokens) = 1 /\ tokens[1] \in ids
        THEN Approval(Some(TRUE), TargetOne(tokens[1]))
    ELSE NoApproval(TRUE)

\* Agent::parse_lua_approval on the tokens of the trimmed input
parse_lua_approval(tokens, ids) ==
    IF tokens = <<>> THEN NoApproval(FALSE)
    ELSE IF ids = {} THEN NoApproval(FALSE)
    ELSE IF Len(tokens) = 1 THEN
        IF parse_decision(tokens[1]) # None
            THEN Approval(parse_decision(tokens[1]), TargetAll)
        ELSE IF tokens[1] \in ids
            THEN Approval(Some(TRUE), TargetOne(tokens[1]))
        ELSE NoApproval(TRUE)
    ELSE
        IF parse_decision(tokens[1]) # None /\ tokens[2] = "all"
            THEN Approval(parse_decision(tokens[1]), TargetAll)
        ELSE IF parse_decision(tokens[1]) # None /\ tokens[2] \in ids
            THEN Approval(parse_decision(tokens[1]), TargetOne(tokens[2]))
        ELSE IF parse_decision(tokens[2]) # None /\ tokens[1] = "all"
            THEN Approval(parse_decision(tokens[2]), TargetAll)
        ELSE IF parse_decision(tokens[2]) # None /\ tokens[1] \in ids
            THEN Approval(parse_decision(tokens[2]), TargetOne(tokens[1]))
        ELSE NoApproval(TRUE)

----------------------------------------------------------------------------
(* The script runtime (src/src/lua.rs) is a black box: each execution      *)
(* nondeterministically returns a result, a script error (reported inside  *)
(* the LuaExecution), or Err (set_hook or value_to_string failing).        *)

RuntimeOutcomes == {"returned", "script_error", "runtime_err"}

\* the LuaExecution of an outcome that is Ok
Execution(o) ==
    IF o = "returned"
        THEN [stdout |-> "", returns |-> <<"5">>, error |-> None]
        ELSE [stdout |-> "hi\n", returns |-> <<>>,
              error |-> Some("Lua execution failed: boom")]

\* str::trim on the strings the model produces
trim(s) ==
    CASE s = "hi\n" -> "hi"
      [] OTHER -> s

RECURSIVE JoinNewline(_)
JoinNewline(items) ==
    IF items = <<>> THEN ""
    ELSE IF Len(items) = 1 THEN items[1]
    ELSE items[1] \o "\n" \o JoinNewline(Tail(items))

RetItems(returns) ==
    [i \in 1..Len(returns) |-> trim("** Ret[" \o ToString(i) \o "]: " \o returns[i])]

\* items.join("\n").trim(): every item is already trimmed, so the final trim
\* only removes the newline that follows an empty stdout item
render_tool_output(execution) ==
    LET items == <<trim(execution.stdout)>>
                    \o RetItems(execution.returns)
                    \o (IF execution.error # None
                          THEN <<trim("** Err: " \o execution.error[1])>>
                          ELSE <<>>)
    IN  IF items[1] = "" THEN JoinNewline(Tail(items)) ELSE JoinNewline(items)

----------------------------------------------------------------------------
(* The registry of agent.rs: lua_wait_list *)

PendingLua(id, code) == [id |-> id, code |-> code, approved |-> None]

EmptyMap == [id \in {} |-> PendingLua(id, "")]

\* an on_lua_call that would show the code without recording the entry
or_insert_Missing(wl, id, code) == wl

\* lua_wait_list.entry(id).or_insert(PendingLua{..})
or_insert(wl, id, code) ==
    IF id \in DOMAIN wl THEN wl
    ELSE [k \in DOMAIN wl \cup {id} |-> IF k = id THEN PendingLua(id, code) ELSE wl[k]]

\* item.approved = Some(decision) for the target's items
SetApproved(wl, decision, target) ==
    IF target.kind = "All"
        THEN [k \in DOMAIN wl |-> [wl[k] EXCEPT !.approved = Some(decision)]]
    ELSE IF target.id \in DOMAIN wl
        THEN [wl EXCEPT ![target.id].approved = Some(decision)]
    ELSE wl

all_decided(wl) ==
    /\ DOMAIN wl # {}
    /\ \A k \in DOMAIN wl : wl[k].approved # None

\* HashMap::drain() yields the items in an unspecified order
DrainOrders(wl) ==
    { [i \in 1..Cardinality(DOMAIN wl) |-> wl[p[i]]] :
        p \in { q \in [1..Cardinality(DOMAIN wl) -> DOMAIN wl] :
                  \A i, j \in 1..Cardinality(DOMAIN wl) : i # j => q[i] # q[j] } }

\* the timeout passed to execute_script
ExecTimeout(item) == None

\* a finish_lua_batch that would run every drained item, whatever its decision
ShouldExecute_Always(item) == TRUE

\* whether finish_lua_batch runs the item's script
ShouldExecute(item) == item.approved = Some(TRUE)

\* finish_lua_batch up to send_lua_result: oc[i] is what the runtime returns
\* if item i is executed.  ok = FALSE: execute_script returned Err and `?`
\* left the function before any output was sent.
finish_lua_batch(pending, oc) ==
    LET n == Len(pending)
        failing == { i \in 1..n : ShouldExecute(pending[i]) /\ oc[i] = "runtime_err" }
        stop == IF failing = {} THEN n
                ELSE CHOOSE i \in failing : \A j \in failing : i <= j
        ran == { i \in 1..stop : ShouldExecute(pending[i]) }
        ExecRec(i) == [id |-> pending[i].id, code |-> pending[i].code,
                       timeout |-> ExecTimeout(pending[i]), outcome |-> oc[i]]
        RECURSIVE ExecLog(_)
        ExecLog(i) == IF i > stop THEN <<>>
                      ELSE (IF i \in ran THEN <<ExecRec(i)>> ELSE <<>>) \o ExecLog(i + 1)
        Result(i) == IF ShouldExecute(pending[i])
                       THEN [id |-> pending[i].id, approved |-> TRUE,
                             output |-> render_tool_output(Execution(oc[i]))]
                       ELSE [id |-> pending[i].id, approved |-> FALSE,
                             output |-> REJECTED_MSG]
    IN  [ok |-> failing = {},
         exec |-> ExecLog(1),
         results |-> IF failing = {} THEN [i \in 1..n |-> Result(i)] ELSE <<>>]

\* a finish_lua_batch that would show no LuaResult to the UI
ToolResultOutputs_Silent(results) == <<>>

\* the Output::LuaResult events of a batch
ToolResultOutputs(results) ==
    [i \in 1..Len(results) |-> LuaResultOut(results[i].id, results[i].output)]

\* LLMClient::cancel(): any status -> Idle
cancel(st) == "Idle"

\* self.handler.on_llm_finished(): the call is logged; impl LLMEventHandler
\* for AgentHandler has no such method and sends no Output for it
on_llm_finished == <<Finished>>

\* an update_status_from_message that would not look at the tool calls
update_status_from_message_Idle(n) == "Idle"

\* update_status_from_message: tool_calls counts every accumulated call
update_status_from_message(n) == IF n = 0 THEN "Idle" ELSE "WaitForLuaResult"

\* a handle_signal that would end without its closing messages
AfterOuts_Quiet(c) == <<>>

\* the rest of the suspended handler, run when the awaited call returns
AfterOuts(c) ==
    CASE c = "exit" -> <<SystemMsg(GOODBYE_MSG)>>
      [] c = "cancel" -> <<SystemMsg(CANCELLED_MSG), AssistantMsg("")>>
      [] OTHER -> <<>>

\* a handle_signal whose Exit arm would return Ok(false)
AfterLoop_Running(c) == "running"

AfterLoop(c) == IF c = "exit" THEN "exited" ELSE "running"

----------------------------------------------------------------------------
(* OpenAIClient.history: src/src/llm/openai.rs *)

\* OpenAIMessage, by its role and the tool-call ids it carries (tool_calls of
\* an assistant message, tool_call_id of a tool message)
UserMsg == [role |-> "user", ids |-> {}]
ToolMsg(id) == [role |-> "tool", ids |-> {id}]
AssistantResponse(ids) == [role |-> "assistant", ids |-> ids]

\* the history as its unanswered tool-call ids and the roles of the messages
\* pushed by the call in flight
History(open, tail) == [open |-> open, tail |-> tail]

\* self.history.push(msg)
push(h, msg) ==
    [open |-> IF msg.role = "assistant" THEN h.open \cup msg.ids
              ELSE IF msg.role = "tool" THEN h.open \ msg.ids
              ELSE h.open,
     tail |-> Append(h.tail, msg.role)]

RECURSIVE push_all(_, _)
push_all(h, msgs) ==
    IF msgs = <<>> THEN h ELSE push_all(push(h, Head(msgs)), Tail(msgs))

\* send_user_msg: new_msgs
send_user_msg == <<UserMsg>>

\* send_lua_results: new_msgs, one tool message per result
send_lua_results(results) == [j \in DOMAIN results |-> ToolMsg(results[j].id)]

\* a chat() that would push the new messages before the request is made
chat_enter_Eager(h, new_messages) == push_all(h, new_messages)

\* chat() up to the await of chat_completion_streaming: the request is built
\* from a clone of the history, self.history is not touched
chat_enter(h, new_messages) == h

\* chat() after chat_completion_streaming returned Ok(response_msg)
chat_ok(h, new_messages, response_msg) == push_all(h, new_messages \o <<response_msg>>)

----------------------------------------------------------------------------
(* History variables: what was observed, for stating the properties *)

InitTurn == [order |-> <<>>, owed |-> [id \in Ids |-> "none"]]

InitBatch == [pending |-> <<>>, exec |-> <<>>, results |-> <<>>, order |-> <<>>,
              via |-> "none", sent |-> FALSE]

InitSendInfo == [kind |-> "none", statusAt |-> "Idle", pendingAt |-> {},
                 unanswered |-> {}, answered |-> {}, new_msgs |-> <<>>,
                 pushed |-> <<>>]

NoEvent == [type |-> "none", name |-> ""]

\* number of Output::LuaResult events for id in outs
CountResults(outs, id) ==
    Cardinality({ i \in DOMAIN outs : outs[i].type = "LuaResult" /\ outs[i].id = id })

\* owed[id]: "none" (not requested since the last send_user), "owed" (requested,
\* no LuaResult yet), "answered" (one LuaResult), "over" (more than one)
OwedAfterResults(o, n) ==
    IF n = 0 THEN o
    ELSE IF o = "owed" /\ n = 1 THEN "answered"
    ELSE "over"

\* on_lua_call(id, code, timeout) was called while the registry was wl
TurnOnCall(t, wl, tc) ==
    IF tc.id \in DOMAIN wl
        THEN t
        ELSE [t EXCEPT !.order = Append(@, tc.id), !.owed[tc.id] = "owed"]

----------------------------------------------------------------------------
(* Agent loop: src/src/agent.rs *)

\* the registry is drained and finish_lua_batch(pending) runs up to its call
\* of send_lua_result; c is the rest of the calling handler, st the adapter
\* status, t the history of the drained entries
FinishBatch(pending, oc, c, st, via, t) ==
    LET r == finish_lua_batch(pending, oc)
        outs == IF r.ok THEN ToolResultOutputs(r.results) ELSE <<>>
    IN  /\ lua_wait_list' = EmptyMap
        /\ batch' = [pending |-> pending, exec |-> r.exec, results |-> r.results,
                     order |-> t.order, via |-> via, sent |-> r.ok]
        /\ turn' = [order |-> <<>>,
                    owed |-> [id \in Ids |->
                                OwedAfterResults(t.owed[id], CountResults(outs, id))]]
        /\ out' = outs
        /\ status' = st
        /\ sendInfo' = InitSendInfo
        /\ UNCHANGED <<nchunks, ntools, accumulated_tool_calls, history>>
        /\ IF r.ok
             THEN /\ pc' = "send_results"
                  /\ cont' = c
                  /\ loop' = loop
             ELSE /\ pc' = "select"
                  /\ cont' = "none"
                  /\ loop' = "failed"

\* reject_all_pending, then the rest c of the handler
RejectAllPending(c, st, via) ==
    IF DOMAIN lua_wait_list = {}
    THEN /\ out' = AfterOuts(c)
         /\ loop' = AfterLoop(c)
         /\ status' = st
         /\ batch' = InitBatch
         /\ sendInfo' = InitSendInfo
         /\ UNCHANGED <<lua_wait_list, pc, cont, nchunks, ntools, turn,
                        accumulated_tool_calls, history>>
    ELSE LET wl2 == SetApproved(lua_wait_list, FALSE, TargetAll) IN
         \E pending \in DrainOrders(wl2) :
            FinishBatch(pending, [i \in 1..Len(pending) |-> "returned"], c, st, via,
                        turn)

\* finish_lua_batch: self.llm.send_lua_result(results), up to the first await
\* of chat()
SendLuaResult ==
    /\ pc = "send_results"
    /\ status' = "Generating"
    /\ pc' = "stream"
    /\ nchunks' = 0
    /\ ntools' = 0
    /\ out' = <<>>
    /\ batch' = InitBatch
    /\ accumulated_tool_calls' = {}
    /\ LET h == chat_enter(History(history, <<>>), send_lua_results(batch.results))
       IN  /\ history' = h.open
           /\ sendInfo' = [kind |-> "tool", statusAt |-> status,
                           pendingAt |-> DOMAIN lua_wait_list,
                           unanswered |-> {}, answered |-> {},
                           new_msgs |-> send_lua_results(batch.results),
                           pushed |-> h.tail]
    /\ UNCHANGED <<lua_wait_list, loop, cont, lastEvent, turn>>
    /\ UNCHANGED <<ioVars, mgrVars, codecVars, runVars, lockVars>>

HandleSignal(signal) ==
    /\ loop = "running"
    /\ pc = "select"
    /\ signal_rx = "open"
    /\ lastEvent' = [type |-> "signal", name |-> signal]
    /\ IF signal = "Exit"
         THEN RejectAllPending("exit", status, "exit")
         ELSE RejectAllPending("cancel", cancel(status), "cancel")
    /\ UNCHANGED <<ioVars, mgrVars, codecVars, runVars, lockVars>>

\* apply_lua_approval
ApplyLuaApproval(decision, target) ==
    LET wl2 == SetApproved(lua_wait_list, decision, target)
    IN  IF all_decided(wl2) /\ (target.kind = "All" \/ target.id \in DOMAIN lua_wait_list)
        THEN \E pending \in DrainOrders(wl2) :
             \E oc \in [1..Len(pending) -> RuntimeOutcomes] :
                FinishBatch(pending, oc, "none", status, "utterance", turn)
        ELSE /\ lua_wait_list' = wl2
             /\ out' = <<>>
             /\ batch' = InitBatch
             /\ sendInfo' = InitSendInfo
             /\ UNCHANGED <<status, loop, pc, cont, nchunks, ntools, turn,
                            accumulated_tool_calls, history>>

\* a handle_input that would forward every line that is not an approval
TextRoute_Forward(p, st, has_pending) ==
    IF p.kind = "Some" THEN "approval" ELSE "send"

\* a handle_input without the `status == Generating` early return
TextRoute_NoBusy(p, st, has_pending) ==
    IF p.kind = "Some" THEN "approval"
    ELSE IF has_pending THEN "reparse"
    ELSE "send"

\* handle_input, Input::Text: which branch the line takes
TextRoute(p, st, has_pending) ==
    IF p.kind = "Some" THEN "approval"
    ELSE IF st = "Generating" THEN "busy"
    ELSE IF has_pending THEN "reparse"
    ELSE IF st = "Idle" THEN "send"
    ELSE "drop"

NotRecognized(p) == IF p.msg THEN <<SystemMsg(NOT_RECOGNIZED_MSG)>> ELSE <<>>

\* handle_user_input -> send_user_msg up to the first await of chat()
SendUser ==
    /\ status' = "Generating"
    /\ pc' = "stream"
    /\ cont' = "none"
    /\ nchunks' = 0
    /\ ntools' = 0
    /\ out' = <<>>
    /\ accumulated_tool_calls' = {}
    /\ LET h == chat_enter(History(history, <<>>), send_user_msg)
       IN  /\ history' = h.open
           /\ sendInfo' = [kind |-> "user", statusAt |-> status,
                           pendingAt |-> DOMAIN lua_wait_list,
                           unanswered |-> { id \in Ids : turn.owed[id] \in {"owed", "over"} },
                           answered |-> { id \in Ids : turn.owed[id] = "answered" },
                           new_msgs |-> send_user_msg,
                           pushed |-> h.tail]
    /\ turn' = [turn EXCEPT !.owed = [id \in Ids |-> "none"]]
    /\ batch' = InitBatch
    /\ UNCHANGED <<lua_wait_list, loop>>

HandleText(line) ==
    /\ loop = "running"
    /\ pc = "select"
    /\ input_rx = "open"
    /\ lastEvent' = [type |-> "text", name |-> ""]
    /\ LET p == parse_lua_approval(line, DOMAIN lua_wait_list)
           route == TextRoute(p, status, DOMAIN lua_wait_list # {})
       IN  CASE route = "approval" -> ApplyLuaApproval(p.decision, p.target)
             [] route = "send" -> SendUser
             [] route = "reparse" ->
                    /\ out' = NotRecognized(p)
                              \o NotRecognized(parse_lua_approval(line, DOMAIN lua_wait_list))
                    /\ batch' = InitBatch
                    /\ sendInfo' = InitSendInfo
                    /\ UNCHANGED <<lua_wait_list, status, loop, pc, cont, nchunks,
                                   ntools, turn, accumulated_tool_calls, history>>
             [] OTHER ->
                    /\ out' = NotRecognized(p)
                    /\ batch' = InitBatch
                    /\ sendInfo' = InitSendInfo
                    /\ UNCHANGED <<lua_wait_list, status, loop, pc, cont, nchunks,
                                   ntools, turn, accumulated_tool_calls, history>>
    /\ UNCHANGED <<ioVars, mgrVars, codecVars, runVars, lockVars>>

\* handle_input, Input::Command -> handle_command
HandleCommand(name, rest) ==
    LET normalized == to_ascii_lowercase(name) IN
    /\ loop = "running"
    /\ pc = "select"
    /\ input_rx = "open"
    /\ lastEvent' = [type |-> "command", name |-> normalized]
    /\ CASE normalized \in {"exit", "quit"} ->
              /\ out' = <<SystemMsg(GOODBYE_MSG)>>
              /\ loop' = "exited"
              /\ batch' = InitBatch
              /\ sendInfo' = InitSendInfo
              /\ UNCHANGED <<lua_wait_list, status, pc, cont, nchunks, ntools, turn,
                             accumulated_tool_calls, history>>
         [] normalized = "cancel" ->
              RejectAllPending("cancel", cancel(status), "cancel")
         [] normalized = "reset-vm" ->
              \* guard.lua.reset()?: Err leaves handle_command, handle_input and
              \* main_loop before anything is sent
              \E ok \in BOOLEAN :
                  /\ out' = IF ok THEN <<SystemMsg("Lua VM reset."), AssistantMsg("")>>
                                  ELSE <<>>
                  /\ loop' = IF ok THEN loop ELSE "failed"
                  /\ batch' = InitBatch
                  /\ sendInfo' = InitSendInfo
                  /\ UNCHANGED <<lua_wait_list, status, pc, cont, nchunks, ntools, turn,
                                 accumulated_tool_calls, history>>
         [] OTHER ->
              /\ out' = << SystemMsg(
                            IF normalized = "help"
                              THEN "Commands: /help, /new, /reset-vm, /cancel, /exit"
                            ELSE IF normalized = "new" THEN "New conversation started."
                            ELSE "Unknown command: /" \o normalized
                                   \o (IF rest = "" THEN "" ELSE " " \o rest)),
                           AssistantMsg("") >>
              /\ batch' = InitBatch
              /\ sendInfo' = InitSendInfo
              /\ UNCHANGED <<lua_wait_list, status, loop, pc, cont, nchunks, ntools, turn,
                             accumulated_tool_calls, history>>
    /\ UNCHANGED <<ioVars, mgrVars, codecVars, runVars, lockVars>>

----------------------------------------------------------------------------
(* The model call in flight: OpenAIClient::chat / chat_completion_streaming, *)
(* calling back into AgentHandler                                            *)

\* a content delta: on_assistant_chunk
StreamChunk ==
    /\ pc = "stream"
    /\ nchunks < MaxChunks
    /\ nchunks' = nchunks + 1
    /\ out' = Append(out, AssistantMsg("hello"))
    /\ UNCHANGED <<lua_wait_list, status, loop, pc, cont, ntools, lastEvent, turn,
                   batch, sendInfo, accumulated_tool_calls, history>>
    /\ UNCHANGED <<ioVars, mgrVars, codecVars, runVars, lockVars>>

\* HTTP failure, non-2xx status or malformed chunk: chat() returns Err, the
\* caller drops the Result; status stays as send_* set it
StreamFail ==
    /\ pc = "stream"
    /\ pc' = "select"
    /\ cont' = "none"
    /\ out' = out \o AfterOuts(cont)
    /\ loop' = AfterLoop(cont)
    /\ accumulated_tool_calls' = {}
    /\ UNCHANGED <<lua_wait_list, status, nchunks, ntools, lastEvent, turn, batch,
                   sendInfo, history>>
    /\ UNCHANGED <<ioVars, mgrVars, codecVars, runVars, lockVars>>

\* one accumulated tool call is processed after the stream ended:
\* on_lua_call when its arguments carry `code`, skipped otherwise
DispatchToolCall(tc) ==
    /\ pc \in {"stream", "tools"}
    /\ ntools < MaxToolCalls
    /\ ntools' = ntools + 1
    /\ pc' = "tools"
    /\ IF tc.code = NoCode
         THEN UNCHANGED <<lua_wait_list, out, turn>>
         ELSE /\ lua_wait_list' = or_insert(lua_wait_list, tc.id, tc.code)
              /\ out' = Append(out, LuaCode(tc.id, tc.code))
              /\ turn' = TurnOnCall(turn, lua_wait_list, tc)
    /\ accumulated_tool_calls' = accumulated_tool_calls \cup {tc.id}
    /\ UNCHANGED <<status, loop, cont, nchunks, lastEvent, batch, sendInfo, history>>
    /\ UNCHANGED <<ioVars, mgrVars, codecVars, runVars, lockVars>>

\* a chat() that would call on_llm_finished while the response is still being
\* processed
ChatFinish_Early ==
    /\ pc \in {"stream", "tools"}
    /\ Len(out) < 4
    /\ out' = out \o on_llm_finished
    /\ UNCHANGED <<lua_wait_list, status, loop, pc, cont, nchunks, ntools, lastEvent,
                   turn, batch, sendInfo, accumulated_tool_calls, history>>
    /\ UNCHANGED <<ioVars, mgrVars, codecVars, runVars, lockVars>>

\* chat() returns Ok: on_llm_finished, update_status_from_message, and the
\* suspended handler runs to its end
ChatFinish ==
    /\ pc \in {"stream", "tools"}
    /\ pc' = "select"
    /\ cont' = "none"
    /\ status' = update_status_from_message(ntools)
    /\ out' = out \o on_llm_finished \o AfterOuts(cont)
    /\ loop' = AfterLoop(cont)
    /\ LET h == chat_ok(History(history, sendInfo.pushed), sendInfo.new_msgs,
                        AssistantResponse(accumulated_tool_calls))
       IN  /\ history' = h.open
           /\ sendInfo' = [sendInfo EXCEPT !.pushed = h.tail]
    /\ accumulated_tool_calls' = {}
    /\ UNCHANGED <<lua_wait_list, nchunks, ntools, lastEvent, turn, batch>>
    /\ UNCHANGED <<ioVars, mgrVars, codecVars, runVars, lockVars>>

----------------------------------------------------------------------------
(* CliIO: src/src/io/cli.rs.  A line and the buffer are sequences of         *)
(* characters.                                                               *)

StdinLines == { <<>>, <<" ">>, <<"h", "i">>, <<"a", "\\">>, <<"/", "q">>, <<"/", "C">> }

is_whitespace(ch) == ch \in {" ", "\n", "\t"}

RECURSIVE trim_start(_)
trim_start(s) ==
    IF s = <<>> THEN <<>>
    ELSE IF is_whitespace(s[1]) THEN trim_start(Tail(s))
    ELSE s

RECURSIVE trim_end(_)
trim_end(s) ==
    IF s = <<>> THEN <<>>
    ELSE IF is_whitespace(s[Len(s)]) THEN trim_end(SubSeq(s, 1, Len(s) - 1))
    ELSE s

\* str::trim on a sequence of characters
str_trim(s) == trim_end(trim_start(s))

\* splitn(2, char::is_whitespace): the part before the first whitespace
\* character
RECURSIVE first_token(_)
first_token(s) ==
    IF s = <<>> THEN <<>>
    ELSE IF is_whitespace(s[1]) THEN <<>>
    ELSE <<s[1]>> \o first_token(Tail(s))

\* splitn(2, char::is_whitespace): the part after the first whitespace
\* character (empty when there is none)
RECURSIVE after_whitespace(_)
after_whitespace(s) ==
    IF s = <<>> THEN <<>>
    ELSE IF is_whitespace(s[1]) THEN Tail(s)
    ELSE after_whitespace(Tail(s))

\* splitn(2, '\n'): the part before the first newline
RECURSIVE before_newline(_)
before_newline(s) ==
    IF s = <<>> THEN <<>>
    ELSE IF s[1] = "\n" THEN <<>>
    ELSE <<s[1]>> \o before_newline(Tail(s))

\* splitn(2, '\n'): the part after the first newline (empty when there is none)
RECURSIVE after_newline(_)
after_newline(s) ==
    IF s = <<>> THEN <<>>
    ELSE IF s[1] = "\n" THEN Tail(s)
    ELSE after_newline(Tail(s))

UpperCase == <<"A", "B", "C", "D", "E", "F", "G", "H", "I", "J", "K", "L", "M", "N", "O", "P", "Q", "R", "S", "T", "U", "V", "W", "X", "Y", "Z">>
LowerCase == <<"a", "b", "c", "d", "e", "f", "g", "h", "i", "j", "k", "l", "m", "n", "o", "p", "q", "r", "s", "t", "u", "v", "w", "x", "y", "z">>

char_to_lowercase(ch) ==
    IF \E i \in DOMAIN UpperCase : UpperCase[i] = ch
        THEN LowerCase[CHOOSE i \in DOMAIN UpperCase : UpperCase[i] = ch]
        ELSE ch

\* str::to_lowercase
to_lowercase(s) == [i \in 1..Len(s) |-> char_to_lowercase(s[i])]

\* the phf_map CMD_NAMES, as (name, Command) pairs
CMD_NAMES ==
    { <<<<"e", "x", "i", "t">>, "Exit">>,
      <<<<"q", "u", "i", "t">>, "Exit">>,
      <<<<"q">>, "Exit">>,
      <<<<"c", "a", "n", "c", "e", "l">>, "Cancel">>,
      <<<<"c">>, "Cancel">>,
      <<<<"s", "t", "o", "p">>, "Cancel">>,
      <<<<"h", "e", "l", "p">>, "Help">>,
      <<<<"s", "t", "a", "t", "u", "s">>, "Status">>,
      <<<<"r", "e", "s", "e", "t", "v", "m">>, "ResetVM">>,
      <<<<"c", "o", "m", "p", "a", "c", "t">>, "Compact">>,
      <<<<"a", "p", "p", "r", "o", "v", "e">>, "Approve">>,
      <<<<"a">>, "Approve">>,
      <<<<"r", "e", "j", "e", "c", "t">>, "Reject">>,
      <<<<"r">>, "Reject">>,
      <<<<"a", "l", "w", "a", "y", "s">>, "ApproveAlways">> }

\* Command::from_name
from_name(name) ==
    IF \E e \in CMD_NAMES : e[1] = to_lowercase(name)
        THEN Some((CHOOSE e \in CMD_NAMES : e[1] = to_lowercase(name))[2])
        ELSE None

NoInput == [type |-> "none", cmd |-> "", arg |-> <<>>, details |-> <<>>, text |-> <<>>]
InputText(text) == [NoInput EXCEPT !.type = "Text", !.text = text]
InputCommand(cmd, arg, details) ==
    [NoInput EXCEPT !.type = "Command", !.cmd = cmd, !.arg = arg, !.details = details]

\* Input::from_raw
Input_from_raw(original) ==
    LET trimmed == str_trim(original)
        stripped == str_trim(Tail(trimmed))
        name_raw == first_token(stripped)
        rest == after_whitespace(stripped)
    IN  IF trimmed # <<>> /\ trimmed[1] = "/" /\ stripped # <<>>
           /\ from_name(name_raw) # None
          THEN InputCommand(from_name(name_raw)[1],
                            str_trim(before_newline(rest)),
                            str_trim(after_newline(rest)))
          ELSE InputText(original)

NoAction == [kind |-> "none", sig |-> "", input |-> NoInput]
ActionSignal(sig) == [NoAction EXCEPT !.kind = "Signal", !.sig = sig]
ActionInput(i) == [NoAction EXCEPT !.kind = "Input", !.input = i]

\* Action::from_raw: the decoder of the finalized text into a Signal or an
\* Input; the exit and cancel commands of Input::from_raw become signals
Action_from_raw(original) ==
    LET i == Input_from_raw(original)
    IN  IF i.type = "Command" /\ i.cmd = "Exit" THEN ActionSignal("Exit")
        ELSE IF i.type = "Command" /\ i.cmd = "Cancel" THEN ActionSignal("Cancel")
        ELSE ActionInput(i)

ends_with_backslash(s) == s # <<>> /\ s[Len(s)] = "\\"

\* stdin task: lines.next_line() returned `line`; up to the send (or the
\* `continue`)
ReadLine(line) ==
    /\ stdin_pc = "read"
    /\ nlines < MaxLines
    /\ nlines' = nlines + 1
    /\ sigint_cnt' = 0
    /\ IF str_trim(line) = <<>>
         THEN UNCHANGED <<buf, stdin_pc, stdin_act, sincePress, joined>>
         ELSE /\ sincePress' = 0
              /\ joined' = IF ends_with_backslash(line)
                             THEN joined \o SubSeq(line, 1, Len(line) - 1) \o <<"\n">>
                             ELSE joined \o line
              /\ IF ends_with_backslash(buf \o line)
                   THEN /\ buf' = SubSeq(buf \o line, 1, Len(buf \o line) - 1) \o <<"\n">>
                        /\ UNCHANGED <<stdin_pc, stdin_act>>
                   ELSE /\ buf' = buf \o line
                        /\ stdin_act' = Action_from_raw(buf \o line)
                        /\ stdin_pc' = "send"
    /\ UNCHANGED <<ctrl_pc, ctrl_msg, signal_ch, input_ch, npresses, pressLog, unix_pc>>
    /\ UNCHANGED <<agentVars, mgrVars, codecVars, runVars, lockVars>>

\* stdin task: signal_tx_input.send(s) or input_tx.send(i)
StdinSend ==
    /\ stdin_pc = "send"
    /\ stdin_pc' = "read"
    /\ stdin_act' = NoAction
    /\ joined' = <<>>
    /\ IF stdin_act.kind = "Signal"
         THEN /\ signal_ch' = Append(signal_ch, stdin_act.sig)
              /\ UNCHANGED input_ch
         ELSE /\ input_ch' = Append(input_ch, stdin_act.input)
              /\ UNCHANGED signal_ch
    /\ UNCHANGED <<sigint_cnt, ctrl_pc, ctrl_msg, buf, nlines, npresses, pressLog,
                   sincePress, unix_pc>>
    /\ UNCHANGED <<agentVars, mgrVars, codecVars, runVars, lockVars>>

\* Ctrl-C task: ctrl_c() returned, sigint_cnt.fetch_add(1) on the AtomicU8
CtrlPress ==
    /\ ctrl_pc = "wait"
    /\ npresses < MaxPresses
    /\ npresses' = npresses + 1
    /\ sigint_cnt' = (sigint_cnt + 1) % 256
    /\ sincePress' = sincePress + 1
    /\ ctrl_pc' = "load"
    /\ UNCHANGED <<ctrl_msg, stdin_pc, stdin_act, buf, signal_ch, input_ch, nlines,
                   pressLog, joined, unix_pc>>
    /\ UNCHANGED <<agentVars, mgrVars, codecVars, runVars, lockVars>>

\* Ctrl-C task: let msg = if sigint_cnt.load() >= 2 { Exit } else { Cancel }
CtrlLoad ==
    /\ ctrl_pc = "load"
    /\ ctrl_msg' = IF sigint_cnt >= 2 THEN "Exit" ELSE "Cancel"
    /\ pressLog' = Append(pressLog, [n |-> sincePress,
                                     msg |-> IF sigint_cnt >= 2 THEN "Exit" ELSE "Cancel"])
    /\ ctrl_pc' = "send"
    /\ UNCHANGED <<sigint_cnt, stdin_pc, stdin_act, buf, signal_ch, input_ch, nlines,
                   npresses, sincePress, joined, unix_pc>>
    /\ UNCHANGED <<agentVars, mgrVars, codecVars, runVars, lockVars>>

\* Ctrl-C task: ctrl_tx.send(msg)
CtrlSend ==
    /\ ctrl_pc = "send"
    /\ signal_ch' = Append(signal_ch, ctrl_msg)
    /\ ctrl_pc' = "check"
    /\ UNCHANGED <<sigint_cnt, ctrl_msg, stdin_pc, stdin_act, buf, input_ch, nlines,
                   npresses, pressLog, sincePress, joined, unix_pc>>
    /\ UNCHANGED <<agentVars, mgrVars, codecVars, runVars, lockVars>>

\* Ctrl-C task: if sigint_cnt.load() >= 2 { break }
CtrlCheck ==
    /\ ctrl_pc = "check"
    /\ ctrl_pc' = IF sigint_cnt >= 2 THEN "done" ELSE "wait"
    /\ UNCHANGED <<sigint_cnt, ctrl_msg, stdin_pc, stdin_act, buf, signal_ch, input_ch,
                   nlines, npresses, pressLog, sincePress, joined, unix_pc>>
    /\ UNCHANGED <<agentVars, mgrVars, codecVars, runVars, lockVars>>

\* the signals the three unix tasks listen for
UnixSignals == {"terminate", "hangup", "quit"}

\* SIGTERM / SIGHUP / SIGQUIT task: recv() returned, Signal::Exit is sent and
\* the task ends
UnixSignal(kind) ==
    /\ unix_pc[kind] = "recv"
    /\ unix_pc' = [unix_pc EXCEPT ![kind] = "done"]
    /\ signal_ch' = Append(signal_ch, "Exit")
    /\ UNCHANGED <<sigint_cnt, ctrl_pc, ctrl_msg, stdin_pc, stdin_act, buf, input_ch,
                   nlines, npresses, pressLog, sincePress, joined>>
    /\ UNCHANGED <<agentVars, mgrVars, codecVars, runVars, lockVars>>

----------------------------------------------------------------------------
(* Manager: src/src/llm/lua_call.rs *)

MgrOutputs == {"out"}

Item(id, st, output) == [id |-> id, status |-> st, output |-> output]

\* Manager::all_ready
all_ready(unh) == unh = <<>>

\* position of the first waiting call with this id, 0 if there is none
position(unh, id) ==
    LET hits == { i \in 1..Len(unh) : unh[i].id = id /\ unh[i].status = "WaitingReview" }
    IN  IF hits = {} THEN 0 ELSE CHOOSE i \in hits : \A j \in hits : i <= j

\* Vec::remove(pos)
remove(unh, pos) == SubSeq(unh, 1, pos - 1) \o SubSeq(unh, pos + 1, Len(unh))

MgrClear ==
    /\ unhandled' = <<>>
    /\ handled' = <<>>
    /\ mgrLast' = [op |-> "clear", id |-> "", ok |-> TRUE]
    /\ UNCHANGED <<agentVars, ioVars, codecVars, runVars, lockVars>>

MgrInsert(id, code) ==
    /\ Len(unhandled) + Len(handled) < MaxItems
    /\ unhandled' = Append(unhandled, Item(id, "WaitingReview", code))
    /\ handled' = handled
    /\ mgrLast' = [op |-> "insert", id |-> id, ok |-> TRUE]
    /\ UNCHANGED <<agentVars, ioVars, codecVars, runVars, lockVars>>

\* pop(id), then the popped call is pushed to handled with the new status and
\* output (approve keeps the output)
MgrMove(op, id, st, output) ==
    LET pos == position(unhandled, id) IN
    /\ IF pos = 0
         THEN UNCHANGED <<unhandled, handled>>
         ELSE /\ unhandled' = remove(unhandled, pos)
              /\ handled' = Append(handled,
                               Item(id, st, IF op = "approve" THEN unhandled[pos].output
                                            ELSE output))
    /\ mgrLast' = [op |-> op, id |-> id, ok |-> pos # 0]
    /\ UNCHANGED <<agentVars, ioVars, codecVars, runVars, lockVars>>

MgrApprove(id) == MgrMove("approve", id, "Executing", "")
MgrExecuted(id, output) == MgrMove("executed", id, "Approved", output)
MgrReject(id, reason) == MgrMove("reject", id, "Rejected", reason)

----------------------------------------------------------------------------
(* The message decoder applied to one text: src/src/io/msg.rs *)

\* command names as typed after the slash
CodecNames ==
    { <<"e", "x", "i", "t">>,
      <<"q", "u", "i", "t">>,
      <<"q">>,
      <<"c", "a", "n", "c", "e", "l">>,
      <<"c">>,
      <<"s", "t", "o", "p">>,
      <<"h", "e", "l", "p">>,
      <<"s", "t", "a", "t", "u", "s">>,
      <<"r", "e", "s", "e", "t", "-", "v", "m">>,
      <<"r", "e", "s", "e", "t", "v", "m">>,
      <<"c", "o", "m", "p", "a", "c", "t">>,
      <<"a", "p", "p", "r", "o", "v", "e">>,
      <<"a">>,
      <<"r", "e", "j", "e", "c", "t">>,
      <<"r">>,
      <<"a", "l", "w", "a", "y", "s">>,
      <<"H", "E", "L", "P">>,
      <<"Q">>,
      <<"A", "p", "p", "r", "o", "v", "e">>,
      <<"f", "o", "o">> }
\* what follows the name: nothing, an argument, a continuation line, both
CodecTails == { <<>>, <<" ", "x">>, <<"\n", "b">>, <<" ", "x", "\n", "b">>, <<" ", "\n", "b">> }
CodecPrefixes == { <<"/">>, <<" ", "/">>, <<>> }

RawInputs == { p \o n \o t : p \in CodecPrefixes, n \in CodecNames, t \in CodecTails }

\* Action::from_raw(buf.as_str())
Decode(original) ==
    /\ raw' = original
    /\ decoded' = Action_from_raw(original)
    /\ UNCHANGED <<agentVars, ioVars, mgrVars, runVars, lockVars>>

----------------------------------------------------------------------------
(* Agent::run around main_loop, and the closing of its channels:             *)
(* src/src/agent.rs                                                          *)

\* the last input_tx is dropped and the channel is drained: recv() yields None
CloseInput ==
    /\ run = "main_loop"
    /\ input_rx = "open"
    /\ input_rx' = "closed"
    /\ UNCHANGED <<signal_rx, run, async_tasks>>
    /\ UNCHANGED <<agentVars, ioVars, mgrVars, codecVars, lockVars>>

\* the last signal_tx is dropped and the channel is drained
CloseSignal ==
    /\ run = "main_loop"
    /\ signal_rx = "open"
    /\ signal_rx' = "closed"
    /\ UNCHANGED <<input_rx, run, async_tasks>>
    /\ UNCHANGED <<agentVars, ioVars, mgrVars, codecVars, lockVars>>

\* select!: both `Some(..) = rx.recv()` patterns failed, `else => break`
SelectElse ==
    /\ loop = "running"
    /\ pc = "select"
    /\ input_rx = "closed"
    /\ signal_rx = "closed"
    /\ loop' = "exited"
    /\ UNCHANGED <<lua_wait_list, status, pc, cont, nchunks, ntools,
                   accumulated_tool_calls, history, out, lastEvent, turn, batch,
                   sendInfo>>
    /\ UNCHANGED <<ioVars, mgrVars, codecVars, runVars, lockVars>>

\* run(): main_loop().await? returned; post_run (io.close: abort_all_tasks)
\* only after Ok
RunReturn ==
    /\ run = "main_loop"
    /\ loop # "running"
    /\ IF loop = "exited"
         THEN /\ async_tasks' = "aborted"
              /\ run' = "ok"
         ELSE /\ async_tasks' = async_tasks
              /\ run' = "err"
    /\ UNCHANGED <<input_rx, signal_rx>>
    /\ UNCHANGED <<agentVars, ioVars, mgrVars, codecVars, lockVars>>

----------------------------------------------------------------------------
(* The resources mutex in the agent task and in the handler the adapter      *)
(* calls while the agent awaits it: src/src/agent.rs                         *)

\* batches finish_lua_batch may be handed: the drained entries, each decided
LockBatches ==
    { <<[id |-> "t1", approved |-> a]>> : a \in BOOLEAN }
    \cup { <<[id |-> "t2", approved |-> a]>> : a \in BOOLEAN }
    \cup { <<[id |-> "t1", approved |-> a], [id |-> "t2", approved |-> b]>> :
             a \in BOOLEAN, b \in BOOLEAN }
    \cup { <<[id |-> "t2", approved |-> a], [id |-> "t1", approved |-> b]>> :
             a \in BOOLEAN, b \in BOOLEAN }

\* apply_lua_approval / reject_all_pending: lock, decide, drain, drop(guard);
\* then finish_lua_batch(pending) is called
DrainLocked(drained) ==
    /\ task_pc = "select"
    /\ mutex = "free"
    /\ task_pc' = "finish_lua_batch"
    /\ fin_pending' = drained
    /\ fin_results' = <<>>
    /\ UNCHANGED <<mutex, handler_pc, handler_calls>>
    /\ UNCHANGED <<agentVars, ioVars, mgrVars, codecVars, runVars>>

\* finish_lua_batch: let guard = self.resources.lock().await
BatchLock ==
    /\ task_pc = "finish_lua_batch"
    /\ mutex = "free"
    /\ mutex' = "agent"
    /\ task_pc' = "for_item"
    /\ UNCHANGED <<fin_pending, fin_results, handler_pc, handler_calls>>
    /\ UNCHANGED <<agentVars, ioVars, mgrVars, codecVars, runVars>>

\* for item in pending: a rejected item is recorded, for an approved one
\* guard.lua.execute_script is entered; after the last item the block ends
\* and the guard is dropped
BatchItem ==
    /\ task_pc = "for_item"
    /\ IF fin_pending = <<>>
         THEN /\ mutex' = "free"
              /\ task_pc' = "send_output"
              /\ UNCHANGED <<fin_pending, fin_results>>
         ELSE IF Head(fin_pending).approved
         THEN /\ task_pc' = "execute_script"
              /\ UNCHANGED <<mutex, fin_pending, fin_results>>
         ELSE /\ fin_results' = Append(fin_results,
                                       [id |-> Head(fin_pending).id, output |-> "rejected"])
              /\ fin_pending' = Tail(fin_pending)
              /\ UNCHANGED <<mutex, task_pc>>
    /\ UNCHANGED <<handler_pc, handler_calls>>
    /\ UNCHANGED <<agentVars, ioVars, mgrVars, codecVars, runVars>>

\* execute_script returns; Err leaves finish_lua_batch through `?`, which
\* drops the guard
ScriptReturn(oc) ==
    /\ task_pc = "execute_script"
    /\ IF oc = "runtime_err"
         THEN /\ mutex' = "free"
              /\ task_pc' = "failed"
              /\ UNCHANGED <<fin_pending, fin_results>>
         ELSE /\ fin_results' = Append(fin_results,
                                       [id |-> Head(fin_pending).id, output |-> oc])
              /\ fin_pending' = Tail(fin_pending)
              /\ task_pc' = "for_item"
              /\ UNCHANGED mutex
    /\ UNCHANGED <<handler_pc, handler_calls>>
    /\ UNCHANGED <<agentVars, ioVars, mgrVars, codecVars, runVars>>

\* the send_output(LuaResult).await calls returned;
\* self.llm.send_lua_result(results).await is entered
BatchSend ==
    /\ task_pc = "send_output"
    /\ task_pc' = "send_lua_result"
    /\ handler_calls' = 0
    /\ UNCHANGED <<mutex, fin_pending, fin_results, handler_pc>>
    /\ UNCHANGED <<agentVars, ioVars, mgrVars, codecVars, runVars>>

\* handle_user_input: self.llm.send_user_msg(input).await is entered, no
\* guard is alive in the agent task
UserSend ==
    /\ task_pc = "select"
    /\ task_pc' = "send_user_msg"
    /\ handler_calls' = 0
    /\ UNCHANGED <<mutex, fin_pending, fin_results, handler_pc>>
    /\ UNCHANGED <<agentVars, ioVars, mgrVars, codecVars, runVars>>

\* send_user_msg returned, handle_input returns to the loop
UserReturn ==
    /\ task_pc = "send_user_msg"
    /\ handler_pc = "idle"
    /\ task_pc' = "select"
    /\ handler_calls' = 0
    /\ UNCHANGED <<mutex, fin_pending, fin_results, handler_pc>>
    /\ UNCHANGED <<agentVars, ioVars, mgrVars, codecVars, runVars>>

\* on_lua_call, called by the adapter inside the awaited call:
\* self.resources.lock().await
HandlerLock ==
    /\ task_pc \in {"send_lua_result", "send_user_msg"}
    /\ handler_pc = "idle"
    /\ handler_calls < MaxToolCalls
    /\ mutex = "free"
    /\ mutex' = "handler"
    /\ handler_pc' = "or_insert"
    /\ handler_calls' = handler_calls + 1
    /\ UNCHANGED <<task_pc, fin_pending, fin_results>>
    /\ UNCHANGED <<agentVars, ioVars, mgrVars, codecVars, runVars>>

\* on_lua_call: the entry is inserted, the block ends and drops the guard
HandlerUnlock ==
    /\ handler_pc = "or_insert"
    /\ mutex' = "free"
    /\ handler_pc' = "send_output"
    /\ UNCHANGED <<task_pc, fin_pending, fin_results, handler_calls>>
    /\ UNCHANGED <<agentVars, ioVars, mgrVars, codecVars, runVars>>

\* on_lua_call: send_output(LuaCode).await returned
HandlerReturn ==
    /\ handler_pc = "send_output"
    /\ handler_pc' = "idle"
    /\ UNCHANGED <<mutex, task_pc, fin_pending, fin_results, handler_calls>>
    /\ UNCHANGED <<agentVars, ioVars, mgrVars, codecVars, runVars>>

\* send_lua_result returned, finish_lua_batch returns to the loop
BatchReturn ==
    /\ task_pc = "send_lua_result"
    /\ handler_pc = "idle"
    /\ task_pc' = "select"
    /\ fin_results' = <<>>
    /\ handler_calls' = 0
    /\ UNCHANGED <<mutex, fin_pending, handler_pc>>
    /\ UNCHANGED <<agentVars, ioVars, mgrVars, codecVars, runVars>>

\* handle_command "reset-vm": let mut guard = self.resources.lock().await
ResetLock ==
    /\ task_pc = "select"
    /\ mutex = "free"
    /\ mutex' = "agent"
    /\ task_pc' = "reset"
    /\ UNCHANGED <<fin_pending, fin_results, handler_pc, handler_calls>>
    /\ UNCHANGED <<agentVars, ioVars, mgrVars, codecVars, runVars>>

\* guard.lua.reset()?: Err drops the guard and leaves the loop, Ok goes on to
\* send_output(SystemMsg).await with the guard alive
ResetVm(ok) ==
    /\ task_pc = "reset"
    /\ IF ok
         THEN /\ task_pc' = "reset_send_output"
              /\ UNCHANGED mutex
         ELSE /\ task_pc' = "failed"
              /\ mutex' = "free"
    /\ UNCHANGED <<fin_pending, fin_results, handler_pc, handler_calls>>
    /\ UNCHANGED <<agentVars, ioVars, mgrVars, codecVars, runVars>>

\* the send_output await returned, the match arm ends and drops the guard
ResetReturn ==
    /\ task_pc = "reset_send_output"
    /\ mutex' = "free"
    /\ task_pc' = "select"
    /\ UNCHANGED <<fin_pending, fin_results, handler_pc, handler_calls>>
    /\ UNCHANGED <<agentVars, ioVars, mgrVars, codecVars, runVars>>

----------------------------------------------------------------------------
AgentInit ==
    /\ lua_wait_list = EmptyMap
    /\ status = "Idle"
    /\ loop = "running"
    /\ pc = "select"
    /\ cont = "none"
    /\ nchunks = 0
    /\ ntools = 0
    /\ accumulated_tool_calls = {}
    /\ history = {}
    \* run(): show_status ("Running onui with config: ..."), send_llm_stopped
    /\ out = <<SystemMsg("Running onui"), AssistantMsg("")>>
    /\ lastEvent = NoEvent
    /\ turn = InitTurn
    /\ batch = InitBatch
    /\ sendInfo = InitSendInfo

IOInit ==
    /\ sigint_cnt = 0
    /\ ctrl_pc = "wait"
    /\ ctrl_msg = "none"
    /\ stdin_pc = "read"
    /\ stdin_act = NoAction
    /\ buf = <<>>
    /\ signal_ch = <<>>
    /\ input_ch = <<>>
    /\ nlines = 0
    /\ npresses = 0
    /\ pressLog = <<>>
    /\ sincePress = 0
    /\ joined = <<>>
    /\ unix_pc = [kind \in UnixSignals |-> "recv"]

MgrInit ==
    /\ unhandled = <<>>
    /\ handled = <<>>
    /\ mgrLast = [op |-> "new", id |-> "", ok |-> TRUE]

CodecInit ==
    /\ raw = <<>>
    /\ decoded = NoAction

\* IO::open has spawned the tasks and handed over the channels; run() has
\* entered main_loop
RunInit ==
    /\ input_rx = "open"
    /\ signal_rx = "open"
    /\ run = "main_loop"
    /\ async_tasks = "running"

LockInit ==
    /\ mutex = "free"
    /\ task_pc = "select"
    /\ fin_pending = <<>>
    /\ fin_results = <<>>
    /\ handler_pc = "idle"
    /\ handler_calls = 0

Init == AgentInit /\ IOInit /\ MgrInit /\ CodecInit /\ RunInit /\ LockInit

Next ==
    \/ \E signal \in Signals : HandleSignal(signal)
    \/ \E c \in Commands : HandleCommand(c[1], c[2])
    \/ \E line \in TextLines : HandleText(line)
    \/ SendLuaResult
    \/ StreamChunk
    \/ StreamFail
    \/ \E tc \in ToolCalls : DispatchToolCall(tc)
    \/ ChatFinish

Spec == Init /\ [][Next]_vars

IONext ==
    \/ \E line \in StdinLines : ReadLine(line)
    \/ StdinSend
    \/ CtrlPress
    \/ CtrlLoad
    \/ CtrlSend
    \/ CtrlCheck
    \/ \E kind \in UnixSignals : UnixSignal(kind)

SpecIO == Init /\ [][IONext]_vars

MgrNext ==
    \/ MgrClear
    \/ \E id \in Ids, code \in Codes : MgrInsert(id, code)
    \/ \E id \in Ids : MgrApprove(id)
    \/ \E id \in Ids, output \in MgrOutputs : MgrExecuted(id, output)
    \/ \E id \in Ids : MgrReject(id, REJECTED_MSG)

SpecMgr == Init /\ [][MgrNext]_vars

CodecNext == \E original \in RawInputs : Decode(original)

SpecCodec == Init /\ [][CodecNext]_vars

RunNext ==
    \/ \E signal \in Signals : HandleSignal(signal)
    \/ \E c \in Commands : HandleCommand(c[1], c[2])
    \/ \E line \in TextLines : HandleText(line)
    \/ SendLuaResult
    \/ StreamChunk
    \/ StreamFail
    \/ \E tc \in ToolCalls : DispatchToolCall(tc)
    \/ ChatFinish
    \/ CloseInput
    \/ CloseSignal
    \/ SelectElse
    \/ RunReturn

SpecRun == Init /\ [][RunNext]_vars

LockNext ==
    \/ \E drained \in LockBatches : DrainLocked(drained)
    \/ BatchLock
    \/ BatchItem
    \/ \E oc \in RuntimeOutcomes : ScriptReturn(oc)
    \/ BatchSend
    \/ UserSend
    \/ UserReturn
    \/ HandlerLock
    \/ HandlerUnlock
    \/ HandlerReturn
    \/ BatchReturn
    \/ ResetLock
    \/ \E ok \in BOOLEAN : ResetVm(ok)
    \/ ResetReturn

SpecLock == Init /\ [][LockNext]_vars

----------------------------------------------------------------------------
(* Properties *)

InFlight(p) == p \in {"stream", "tools"}
Roles(msgs) == [j \in DOMAIN msgs |-> msgs[j].role]
BatchIds == [j \in DOMAIN batch.results |-> batch.results[j].id]
Executed(id) == \E i \in DOMAIN batch.exec : batch.exec[i].id = id
CancelEvent == [type |-> "signal", name |-> "Cancel"]

\* C1: the runtime is invoked for an id only if the decision recorded for that
\* id is approved; for a rejected item (by utterance, Cancel or Exit) the
\* runtime is not invoked and both the LuaResult shown to the UI and the result
\* handed to the adapter are "Lua execution rejected by user."
C1_ExecutedOnlyIfApproved ==
    \A j \in DOMAIN batch.pending :
        LET item == batch.pending[j] IN
        /\ Executed(item.id) => item.approved = Some(TRUE)
        /\ (item.approved # Some(TRUE) /\ batch.sent) =>
              /\ batch.results[j] = [id |-> item.id, approved |-> FALSE,
                                     output |-> REJECTED_MSG]
              /\ out[j] = LuaResultOut(item.id, REJECTED_MSG)

\* a batch decided by utterances in which one item was rejected and another
\* approved and executed is about to be sent
C1_Witness ==
    /\ pc = "send_results"
    /\ batch.via = "utterance"
    /\ Len(batch.exec) = 1
    /\ \E j \in DOMAIN batch.pending : batch.pending[j].approved = Some(FALSE)

\* C2: for every id passed to on_lua_call exactly one LuaResult{id, _} is
\* emitted before the next send_user_msg: when a user message is sent no
\* requested id is unanswered, and no id is ever answered twice
C2_OneResultPerCall ==
    /\ sendInfo.kind = "user" => sendInfo.unanswered = {}
    /\ \A id \in Ids : turn.owed[id] # "over"

\* a user message is sent after a tool call of the turn before was answered
C2_Witness ==
    /\ sendInfo.kind = "user"
    /\ sendInfo.answered # {}

\* C3: once an entry's decision is set, no later approval utterance changes it
\* before its batch is delivered (stated as the property the code should have)
C3_DecisionsFinal ==
    [][(pc = "select" /\ lastEvent'.type = "text") =>
         \A id \in DOMAIN lua_wait_list :
            lua_wait_list[id].approved # None =>
               /\ id \in DOMAIN lua_wait_list' =>
                     lua_wait_list'[id].approved = lua_wait_list[id].approved
               /\ \A j \in DOMAIN batch'.pending :
                     batch'.pending[j].id = id =>
                        batch'.pending[j].approved = lua_wait_list[id].approved]_vars

\* the timeout the tool call (id, code) was made with, 10 s when it had none
RecordedTimeout(id, code) ==
    LET tc == CHOOSE c \in ToolCalls : c.id = id /\ c.code = code
    IN  IF tc.timeout = None THEN Some(10) ELSE tc.timeout

\* C4: every approved item is executed with the code and the timeout of its
\* tool call, 10 s when the call carried none (stated as the property the code
\* should have)
C4_ExecutedWithRecordedTimeout ==
    \A i \in DOMAIN batch.exec :
        batch.exec[i].timeout = RecordedTimeout(batch.exec[i].id, batch.exec[i].code)

\* C5: the Manager is complete (all_ready) iff no call is unhandled and at
\* least one is handled (stated as the property the code should have)
C5_ReadyIffResolved ==
    all_ready(unhandled) <=> (unhandled = <<>> /\ handled # <<>>)

\* C6: the batch handed to the adapter and the LuaResult events list the
\* items in the order on_lua_call inserted them (stated as the property the
\* code should have)
C6_BatchInInsertionOrder ==
    batch.sent =>
        /\ BatchIds = batch.order
        /\ [j \in DOMAIN out |-> out[j].id] = batch.order

\* C7: while the registry holds a pending item no text line is passed to
\* send_user_msg
C7_NoPromptWhilePending ==
    sendInfo.kind = "user" => sendInfo.pendingAt = {}

\* a line that is no approval utterance was handled while items were pending:
\* "not recognized" was reported, nothing was sent, the items are still pending
C7_Witness ==
    /\ lastEvent.type = "text"
    /\ pc = "select"
    /\ DOMAIN lua_wait_list # {}
    /\ out # <<>>
    /\ \A i \in DOMAIN out : out[i] = SystemMsg(NOT_RECOGNIZED_MSG)
    /\ sendInfo.kind = "none"

\* C8: send_user_msg and send_lua_result are never issued while the adapter
\* status is Generating, and only one model call is in flight: a send is
\* recorded only by the step that starts the call
C8_NoSendWhileGenerating ==
    /\ sendInfo.kind # "none" => sendInfo.statusAt # "Generating"
    /\ pc \in {"stream", "tools"} => status = "Generating" /\ sendInfo.kind # "none"

\* a text line arrived while the status was Generating and was not sent
C8_Witness ==
    /\ lastEvent.type = "text"
    /\ pc = "select"
    /\ status = "Generating"
    /\ sendInfo.kind = "none"

\* C9: a Signal::Cancel handled right after a Signal::Cancel terminates the
\* loop (stated as the property the code should have)
C9_SecondCancelExits ==
    [][(pc = "select" /\ lastEvent = CancelEvent /\ lastEvent' = CancelEvent
          /\ pc' = "select") => loop' = "exited"]_vars

\* C10: a Ctrl-C is answered with Exit iff it is at least the second press
\* since the last non-empty stdin line, with Cancel otherwise (stated as the
\* property the code should have)
C10_ExitIffSecondPress ==
    \A i \in DOMAIN pressLog :
        pressLog[i].msg = (IF pressLog[i].n >= 2 THEN "Exit" ELSE "Cancel")

ExitEvent == [type |-> "signal", name |-> "Exit"]
AllRejected ==
    /\ batch.exec = <<>>
    /\ batch.sent
    /\ \A j \in DOMAIN batch.pending :
          /\ batch.results[j] = [id |-> batch.pending[j].id, approved |-> FALSE,
                                 output |-> REJECTED_MSG]
          /\ out[j] = LuaResultOut(batch.pending[j].id, REJECTED_MSG)
EndsWith(o, tail) ==
    /\ Len(o) >= Len(tail)
    /\ SubSeq(o, Len(o) - Len(tail) + 1, Len(o)) = tail

\* C11 as stated: when Signal::Cancel has been handled the registry is empty
C11_CancelLeavesRegistryEmpty ==
    (lastEvent = CancelEvent /\ pc = "select") => lua_wait_list = EmptyMap

\* C11, amended: handling Signal::Cancel calls cancel() (status Idle), rejects
\* every item pending at that moment without running a script and drains
\* the registry; the handler ends with SystemMsg "Cancelled. One more time to
\* exit." and the loop keeps running; at its end the registry holds only
\* undecided calls the model made in answer to the rejected batch, none if
\* nothing was pending
C11_CancelRejectsAll ==
    /\ batch.via = "cancel" =>
          /\ AllRejected
          /\ lua_wait_list = EmptyMap
          /\ status = "Idle"
          /\ loop = "running"
    /\ (lastEvent = CancelEvent /\ pc = "select") =>
          /\ loop = "running"
          /\ EndsWith(out, <<SystemMsg(CANCELLED_MSG), AssistantMsg("")>>)
          /\ sendInfo.kind = "none" => (lua_wait_list = EmptyMap /\ status = "Idle")
          /\ \A id \in DOMAIN lua_wait_list :
                /\ sendInfo.kind = "tool"
                /\ lua_wait_list[id].approved = None
                /\ \E i \in DOMAIN out : out[i].type = "LuaCode" /\ out[i].id = id

\* Signal::Cancel arrived with items pending, the rejected batch was sent, the
\* model answered it with a tool call, and the handler has ended
C11_Witness ==
    /\ lastEvent = CancelEvent
    /\ pc = "select"
    /\ sendInfo.kind = "tool"
    /\ Roles(sendInfo.new_msgs) = <<"tool", "tool">>
    /\ DOMAIN lua_wait_list = {"t1"}
    /\ EndsWith(out, <<SystemMsg(CANCELLED_MSG), AssistantMsg("")>>)

\* C12: handling Signal::Exit rejects every pending item without running a
\* script, ends with SystemMsg "Goodbye." and terminates the loop; once the
\* loop has ended the last event handled is the one that ended it
C12_ExitRejectsAndTerminates ==
    /\ batch.via = "exit" => (AllRejected /\ lua_wait_list = EmptyMap)
    /\ (lastEvent = ExitEvent /\ pc = "select") =>
          /\ loop = "exited"
          /\ EndsWith(out, <<SystemMsg(GOODBYE_MSG)>>)
    /\ loop = "exited" =>
          \/ lastEvent = ExitEvent
          \/ (lastEvent.type = "command" /\ lastEvent.name \in {"exit", "quit"})

\* Signal::Exit arrived with an item pending, the rejected batch was sent and
\* the loop has ended
C12_Witness ==
    /\ lastEvent = ExitEvent
    /\ loop = "exited"
    /\ sendInfo.kind = "tool"

\* C13: the /exit and /quit commands do what Signal::Exit does: with items
\* pending they are drained as rejected (to be sent as a batch), without any
\* pending the loop ends after "Goodbye." (stated as the property the code
\* should have)
C13_ExitCommandSameAsSignal ==
    [][(pc = "select" /\ loop = "running" /\ lastEvent'.type = "command"
          /\ lastEvent'.name \in {"exit", "quit"}) =>
         IF DOMAIN lua_wait_list = {}
           THEN loop' = "exited" /\ out' = <<SystemMsg(GOODBYE_MSG)>>
           ELSE /\ lua_wait_list' = EmptyMap
                /\ batch'.via = "exit"
                /\ pc' = "send_results"]_vars

\* C14: Signal::Exit preempts a model call in flight: while a call streams,
\* the loop can take the Exit signal (and abort the call) instead of first
\* delivering the rest of the call's chunks and tool calls (stated as the
\* property the code should have)
C14_ExitPreemptsCall ==
    (loop = "running" /\ pc \in {"stream", "tools"}) => ENABLED HandleSignal("Exit")

\* C15: after a model call failed the adapter is back at Idle and the failure
\* was reported: between two events the status is never Generating, and a call
\* that ended without on_llm_finished left a SystemMsg (stated as the property
\* the code should have)
C15_FailedCallReturnsToIdle ==
    (pc = "select" /\ loop = "running") =>
        /\ status # "Generating"
        /\ (sendInfo.kind # "none" /\ \A i \in DOMAIN out : out[i] # Finished) =>
              \E i \in DOMAIN out : out[i].type = "SystemMsg"

\* C16: no failure of a script or of the script runtime ends the loop: the
\* loop never stops on a propagated error (stated as the property the code
\* should have)
C16_LoopNeverFails ==
    loop # "failed"

\* C17: every tool call of a response is either delivered through on_lua_call
\* (a LuaCode is shown) or, when it has no `code`, reported by a SystemMsg
\* (stated as the property the code should have)
C17_SkippedCallIsLogged ==
    [][ntools' = ntools + 1 =>
          /\ Len(out') = Len(out) + 1
          /\ out'[Len(out')].type \in {"LuaCode", "SystemMsg"}]_vars

\* C18: on_lua_call records the entry and shows the code: whenever a LuaCode
\* for an id has been shown since the last send, the id is pending in the
\* registry, and a line naming just that id is parsed as its approval
C18_ShownCodeIsPending ==
    \A i \in DOMAIN out :
        out[i].type = "LuaCode" =>
            /\ out[i].id \in DOMAIN lua_wait_list
            /\ parse_lua_approval(<<out[i].id>>, DOMAIN lua_wait_list)
                 = Approval(Some(TRUE), TargetOne(out[i].id))

\* the response being processed has shown the code of a tool call
C18_Witness ==
    /\ pc = "tools"
    /\ \E i \in DOMAIN out : out[i].type = "LuaCode"

FinishedIdx == { i \in DOMAIN out : out[i] = Finished }
CallEvent(e) == e.type = "LuaCode" \/ (e.type = "AssistantMsg" /\ e.text # "")
CallCompleted == pc = "select" /\ sendInfo.kind # "none" /\ status # "Generating"

\* C19: the chunks and tool calls of a model call come first, then exactly one
\* on_llm_finished: nothing of the call is shown after the finish, no finish
\* is seen while the call is in flight, and a completed call has exactly one
C19_FinishedOnceAndLast ==
    /\ Cardinality(FinishedIdx) <= 1
    /\ \A i \in FinishedIdx : \A j \in DOMAIN out : j > i => ~CallEvent(out[j])
    /\ pc \in {"stream", "tools"} => FinishedIdx = {}
    /\ CallCompleted => Cardinality(FinishedIdx) = 1

\* a call that streamed a chunk and then a tool call has completed
C19_Witness ==
    /\ CallCompleted
    /\ \E i, j, k \in DOMAIN out :
          /\ i < j /\ j < k
          /\ out[i].type = "AssistantMsg" /\ out[i].text # ""
          /\ out[j].type = "LuaCode"
          /\ out[k] = Finished

\* the prompt cue of the spec (Output::InputReady)
InputReady == [type |-> "InputReady"]

\* C20: every on_llm_finished of a model call is followed in the outputs by
\* AssistantMsg("") and then InputReady (stated as the property the code
\* should have)
C20_FinishedEmitsEndThenReady ==
    \A i \in DOMAIN out :
        out[i] = Finished =>
            /\ i + 2 <= Len(out)
            /\ out[i + 1] = AssistantMsg("")
            /\ out[i + 2] = InputReady

MgrIds == [i \in 1..(Len(unhandled) + Len(handled)) |->
             IF i <= Len(unhandled) THEN unhandled[i].id
             ELSE handled[i - Len(unhandled)].id]

\* C21: an insert of an id that is already present fails, so an id occurs at
\* most once among the pending and the resolved entries of the Manager
C21_IdsUnique ==
    \A i, j \in DOMAIN MgrIds : MgrIds[i] = MgrIds[j] => i = j

\* C22: right after /reset-vm was handled the registry holds no entry
C22_ResetVmClearsRegistry ==
    lastEvent = [type |-> "command", name |-> "reset-vm"] => lua_wait_list = EmptyMap

\* the names the decoder is to recognize, with what each stands for
ClaimedNames ==
    { <<<<"e", "x", "i", "t">>, "Exit">>,
      <<<<"q", "u", "i", "t">>, "Exit">>,
      <<<<"q">>, "Exit">>,
      <<<<"c", "a", "n", "c", "e", "l">>, "Cancel">>,
      <<<<"c">>, "Cancel">>,
      <<<<"s", "t", "o", "p">>, "Cancel">>,
      <<<<"h", "e", "l", "p">>, "Help">>,
      <<<<"s", "t", "a", "t", "u", "s">>, "Status">>,
      <<<<"r", "e", "s", "e", "t", "-", "v", "m">>, "ResetVM">>,
      <<<<"r", "e", "s", "e", "t", "v", "m">>, "ResetVM">>,
      <<<<"c", "o", "m", "p", "a", "c", "t">>, "Compact">>,
      <<<<"a", "p", "p", "r", "o", "v", "e">>, "Approve">>,
      <<<<"a">>, "Approve">>,
      <<<<"r", "e", "j", "e", "c", "t">>, "Reject">>,
      <<<<"r">>, "Reject">>,
      <<<<"a", "l", "w", "a", "y", "s">>, "ApproveAlways">> }

\* the lowercased first token after the slash, empty for a text without slash
SlashToken(text) ==
    IF str_trim(text) # <<>> /\ str_trim(text)[1] = "/"
        THEN to_lowercase(first_token(Tail(str_trim(text))))
        ELSE <<>>

\* C23: a text starting with `/` is decoded by its first token, whatever its
\* case: exit, quit, q to Signal::Exit; cancel, c, stop to Signal::Cancel;
\* help, status, reset-vm, resetvm, compact, approve, a, reject, r, always to
\* the matching Input::Command; every other text to Input::Text of the raw text
C23_DecodeByFirstToken ==
    decoded.kind # "none" =>
        IF \E e \in ClaimedNames : e[1] = SlashToken(raw)
        THEN LET cmd == (CHOOSE e \in ClaimedNames : e[1] = SlashToken(raw))[2]
             IN  IF cmd \in {"Exit", "Cancel"}
                   THEN decoded = ActionSignal(cmd)
                   ELSE /\ decoded.kind = "Input"
                        /\ decoded.input.type = "Command"
                        /\ decoded.input.cmd = cmd
        ELSE decoded = ActionInput(InputText(raw))

\* C24: for a decoded Command, arg is the trimmed rest of the first line after
\* the command name and the body is the text after the first newline, also
\* when the name is directly followed by the newline
C24_ArgAndBody ==
    (decoded.kind = "Input" /\ decoded.input.type = "Command") =>
        LET text == str_trim(raw)
            first == before_newline(text)
            name_len == Len(first_token(Tail(first)))
        IN  /\ decoded.input.arg = str_trim(SubSeq(first, 2 + name_len, Len(first)))
            /\ decoded.input.details = str_trim(after_newline(text))

\* C25: lines ending in a backslash are joined with the line that follows,
\* each backslash replaced by a newline, and the joined text is decoded as one
\* event; a line not ending in a backslash finalizes it
C25_ContinuationDecodedAsOne ==
    /\ (stdin_pc = "send" /\ \E i \in DOMAIN joined : joined[i] = "\n")
          => stdin_act = Action_from_raw(joined)
    /\ stdin_pc = "read" => (joined = <<>> \/ joined[Len(joined)] = "\n")

\* C26: a text line handled while the adapter is Generating and no tool is
\* pending is not sent, and a SystemMsg tells the operator that the agent is
\* busy
C26_BusyLineReported ==
    [][(/\ pc = "select" /\ loop = "running"
        /\ status = "Generating" /\ DOMAIN lua_wait_list = {}
        /\ lastEvent'.type = "text")
         => (/\ pc' = "select"
             /\ status' = "Generating"
             /\ \E i \in DOMAIN out' : out'[i].type = "SystemMsg")]_vars

\* the approval grammar: D = {y, yes, approve, ok -> approved; n, no, reject
\* -> rejected}, whatever the case
InD(token) == to_ascii_lowercase(token) \in {"y", "yes", "approve", "ok", "n", "no", "reject"}
DOf(token) == to_ascii_lowercase(token) \in {"y", "yes", "approve", "ok"}
Unrecognized == [rec |-> FALSE, decision |-> FALSE, ids |-> {}]
Decide(decision, ids) == [rec |-> TRUE, decision |-> decision, ids |-> ids]

\* what an utterance means with the ids P pending
Utterance(tokens, P) ==
    IF Len(tokens) = 0 THEN Unrecognized
    ELSE IF Len(tokens) = 1 THEN
        IF InD(tokens[1]) THEN Decide(DOf(tokens[1]), P)
        ELSE IF tokens[1] \in P THEN Decide(TRUE, {tokens[1]})
        ELSE Unrecognized
    ELSE
        IF InD(tokens[1]) /\ tokens[2] = "all" THEN Decide(DOf(tokens[1]), P)
        ELSE IF InD(tokens[2]) /\ tokens[1] = "all" THEN Decide(DOf(tokens[2]), P)
        ELSE IF InD(tokens[1]) /\ tokens[2] \in P THEN Decide(DOf(tokens[1]), {tokens[2]})
        ELSE IF InD(tokens[2]) /\ tokens[1] \in P THEN Decide(DOf(tokens[2]), {tokens[1]})
        ELSE Unrecognized

\* C27: with tools pending, a text line is taken as the grammar says: a
\* recognized utterance records its decision for exactly the ids it names
\* (in the registry or in the batch drained from it), every other line
\* changes no decision
C27_UtteranceGrammar ==
    [][\A line \in TextLines :
         (/\ pc = "select" /\ loop = "running"
          /\ DOMAIN lua_wait_list # {}
          /\ lastEvent'.type = "text"
          /\ HandleText(line))
         => LET u == Utterance(line, DOMAIN lua_wait_list)
            IN  IF u.rec
                THEN \A id \in DOMAIN lua_wait_list :
                       LET before == lua_wait_list[id].approved
                           after == IF id \in u.ids THEN Some(u.decision) ELSE before
                       IN  \/ /\ id \in DOMAIN lua_wait_list'
                              /\ lua_wait_list'[id].approved = after
                           \/ /\ lua_wait_list' = EmptyMap
                              /\ \E i \in DOMAIN batch'.pending :
                                    /\ batch'.pending[i].id = id
                                    /\ batch'.pending[i].approved = after
                ELSE /\ lua_wait_list' = lua_wait_list
                     /\ batch' = InitBatch
                     /\ pc' = "select"]_vars

\* a batch was completed by utterances that approved one id and rejected
\* the other
C27_Witness ==
    /\ lastEvent.type = "text"
    /\ batch.via = "utterance"
    /\ \E i, j \in DOMAIN batch.pending :
          /\ batch.pending[i].approved = Some(TRUE)
          /\ batch.pending[j].approved = Some(FALSE)

\* C28: the registry is empty iff no on_lua_call has fired since the last
\* batch was drained and the batch drained last, if any, went to the adapter
C28_EmptyIffNoCallOrSubmitted ==
    (lua_wait_list = EmptyMap)
        <=> (turn.order = <<>> /\ (batch.pending # <<>> => batch.sent))

CancelHandled(e) == e.name \in {"Cancel", "cancel"} /\ e.type \in {"signal", "command"}

\* C29: the adapter status changes only Idle -> Generating on a send,
\* Generating -> WaitForLuaResult on a response with tool calls,
\* Generating -> Idle on a response without, WaitForLuaResult -> Generating
\* on send_lua_results, and to Idle on cancel; a cancel always leaves Idle,
\* so a repeated cancel changes nothing
C29_StatusTransitions ==
    [][/\ status' # status =>
            \/ /\ status = "Idle" /\ status' = "Generating"
               /\ pc \in {"select", "send_results"} /\ pc' = "stream"
            \/ /\ status = "Generating" /\ status' = "WaitForLuaResult"
               /\ pc \in {"stream", "tools"} /\ pc' = "select" /\ ntools > 0
            \/ /\ status = "Generating" /\ status' = "Idle"
               /\ pc \in {"stream", "tools"} /\ pc' = "select" /\ ntools = 0
            \/ /\ status = "WaitForLuaResult" /\ status' = "Generating"
               /\ pc = "send_results" /\ pc' = "stream"
            \/ /\ status' = "Idle"
               /\ pc = "select" /\ CancelHandled(lastEvent')
       /\ (pc = "select" /\ pc' # "stream" /\ CancelHandled(lastEvent'))
            => status' = "Idle"]_vars

\* results were sent from Idle (after a cancel) and the response carried tool
\* calls
C29_Witness ==
    /\ sendInfo.kind = "tool"
    /\ sendInfo.statusAt = "Idle"
    /\ pc = "select"
    /\ status = "WaitForLuaResult"

\* C30: when a command other than exit has been handled, the outputs of the
\* command hold exactly one InputReady, and it is the last of them
C30_CommandEndsWithOneCue ==
    (lastEvent.type = "command" /\ lastEvent.name \notin {"exit", "quit"} /\ pc = "select")
        => /\ out # <<>>
           /\ out[Len(out)] = InputReady
           /\ Cardinality({ i \in DOMAIN out : out[i] = InputReady }) = 1

\* C31: once one of the two channels is closed, the next thing the loop
\* does at its select is to terminate
C31_ClosedChannelEndsLoop ==
    [][(/\ pc = "select" /\ loop = "running"
        /\ (input_rx = "closed" \/ signal_rx = "closed")
        /\ agentVars' # agentVars)
         => loop' = "exited"]_vars

\* C32: the agent task holds the resources mutex neither while a script
\* runs nor across an await
C32_MutexNotHeldWhileRunning ==
    task_pc \in {"execute_script", "send_output", "send_lua_result", "send_user_msg",
                 "reset_send_output"}
        => mutex # "agent"

\* C33: when run() has returned, the tasks of the IO layer are aborted
C33_TasksAbortedWhenRunEnds ==
    run # "main_loop" => async_tasks = "aborted"

\* C34: an entry can go unresolved -> approved -> executed: when approve(id)
\* has moved the only entry of id to handled, executed(id, output) succeeds
\* and leaves exactly one handled entry of id, Approved, with that output
C34_ApprovedThenExecuted ==
    [][\A id \in Ids :
         (/\ mgrLast'.op = "executed" /\ mgrLast'.id = id
          /\ \A j \in DOMAIN unhandled : unhandled[j].id # id
          /\ Cardinality({ i \in DOMAIN handled : handled[i].id = id }) = 1
          /\ \E i \in DOMAIN handled :
                handled[i].id = id /\ handled[i].status = "Executing")
         => /\ mgrLast'.ok
            /\ Cardinality({ i \in DOMAIN handled' : handled'[i].id = id }) = 1
            /\ \A i \in DOMAIN handled' :
                  handled'[i].id = id
                    => handled'[i].status = "Approved" /\ handled'[i].output \in MgrOutputs]_vars

\* the last output is a prompt cue
Prompted(o) == o # <<>> /\ o[Len(o)] \in {InputReady, AssistantMsg("")}

\* C35: with tools pending, a text line that is no approval utterance gets
\* exactly one SystemMsg, changes no decision, leaves the registry as it is
\* and is followed by a prompt
C35_UnrecognizedReportedOnce ==
    [][\A line \in TextLines :
         (/\ pc = "select" /\ loop = "running"
          /\ DOMAIN lua_wait_list # {}
          /\ lastEvent'.type = "text"
          /\ ~Utterance(line, DOMAIN lua_wait_list).rec
          /\ HandleText(line))
         => /\ Cardinality({ i \in DOMAIN out' : out'[i].type = "SystemMsg" }) = 1
            /\ lua_wait_list' = lua_wait_list
            /\ Prompted(out')]_vars

\* C36: between calls the status is WaitForLuaResult only while the registry
\* holds a pending tool, so a text line is always either an approval or
\* sendable
C36_WaitingImpliesPending ==
    (pc = "select" /\ loop = "running" /\ status = "WaitForLuaResult")
        => DOMAIN lua_wait_list # {}

\* C37: the code shown in a LuaCode event for an id is the code the registry
\* holds for that id, which is the code run on approval
C37_ShownCodeIsRecordedCode ==
    [][(ntools' = ntools + 1 /\ Len(out') = Len(out) + 1
          /\ out'[Len(out')].type = "LuaCode")
         => lua_wait_list'[out'[Len(out')].id].code = out'[Len(out')].code]_vars

\* C38: send_user_msg is only issued when every tool-call id of the
\* assistant messages in the adapter's history has been answered by a tool
\* message
C38_UserSendAfterAllAnswered ==
    [][(~InFlight(pc) /\ pc' = "stream" /\ sendInfo'.kind = "user") => history = {}]_vars

\* C39: entering chat() and a failing call leave the adapter's history as it
\* was, nothing is pushed while the response streams, and a completed call
\* has pushed the new messages followed by the response
C39_HistoryPushedOnCompletion ==
    [][/\ (~InFlight(pc) /\ pc' = "stream")
            => (history' = history /\ sendInfo'.pushed = <<>>)
       /\ (InFlight(pc) /\ InFlight(pc'))
            => (history' = history /\ sendInfo'.pushed = <<>>)
       /\ (InFlight(pc) /\ pc' = "select" /\ status' = "Generating")
            => (history' = history /\ sendInfo'.pushed = <<>>)
       /\ (InFlight(pc) /\ pc' = "select" /\ status' # "Generating")
            => sendInfo'.pushed = Roles(sendInfo.new_msgs) \o <<"assistant">>]_vars

\* the call that carried the result of t1 failed after a chunk had streamed:
\* t1 is still unanswered in the history
C39_Witness ==
    /\ pc = "select"
    /\ sendInfo.kind = "tool"
    /\ Roles(sendInfo.new_msgs) = <<"tool">>
    /\ status = "Generating"
    /\ nchunks = 1
    /\ history = {"t1"}
    /\ sendInfo.pushed = <<>>

\* C40: the text an event is decoded from is the text of the lines read since
\* the event before it was decoded
C40_EventHoldsOnlyNewLines ==
    stdin_pc = "send" => buf = joined

====
